---- MODULE Spec2Model ----
(***************************************************************************)
(* Message-driven resolution core of gisim: CharacterEntity.msg_handler    *)
(* (src/gisim/classes/character.py) reacting to the head of the shared     *)
(* priority queue, driven by the fixed-point pass protocol.                *)
(***************************************************************************)
EXTENDS Integers, Sequences, FiniteSets, TLC

(* ------------------------------------------------------------------ *)
(* The board and the input domains                                      *)
(* ------------------------------------------------------------------ *)

\* PlayerID values; every CharacterEntity is built with one (line 28).
Players == {1, 2}

\* CharPos values; every CharacterEntity is built with one (line 29).
Positions == {0, 1}

\* The CharacterEntity objects on the board, each named by its player_id and
\* position: two characters of player 1 and one of player 2.  The pair also
\* stands for the entity's _uuid, which is unique per entity and only compared
\* for equality.
Entities == {<<1, 0>>, <<1, 1>>, <<2, 0>>}

\* health_point of the character card every entity is built from (line 52).
InitHealth == 2

\* Largest damage amount an externally produced DealDamage tuple carries.
MaxDmg == 1

\* Damage amounts of externally produced tuples: dmg_val is any int.
DmgVals == (-1) .. MaxDmg

\* The damage of the DealDamageMsg a skill produces (line 105).
SkillDamage == 2

\* The message classes msg_handler tells apart (lines 95, 109, 121) and the
\* one it produces without handling (line 129).
Kinds == {"UseSkill", "ChangeCharacter", "DealDamage", "CharacterDied"}

\* Priority keys of the message classes (smaller is served first).
PrioLevels == {1, 2}

\* Placeholder for the fields a message class does not carry.
NoPos == -1

VARIABLES
    chars,      \* entity -> [health_point, alive, active]
    queue,      \* msg_queue.queue: the messages, head first
    prio,       \* message class -> priority key
    phase,      \* the driver: "pass", "stalled", "empty" or "failed"
    pending,    \* entities not yet presented the head in this pass
    updated,    \* some entity of this pass reported an update
    last,       \* the last call of msg_handler and what it returned
    died,       \* entity -> CharacterDiedMsg put by it so far
    seen,       \* entities the current head has been presented to
    dealt,      \* entity -> the damage tuples delivered to it so far
    initq,      \* the queue the drain started with
    cost,       \* cost dict object -> the amount it holds
    obj,        \* Skill object -> [name, RAW_COST, current_cost], the two
                \* costs being references to cost dict objects
    card,       \* CHARACTER_CARDS[id].skills: references to Skill objects
    skills,     \* entity -> self.skills: references to Skill objects
    changed,    \* the <<entity, index>> skills whose current cost was changed
    lookup      \* the last call of get_raw_skill and how it ended

drainvars ==
    <<chars, queue, prio, phase, pending, updated, last, died, seen, dealt, initq>>
cardvars == <<cost, obj, card, skills, changed, lookup>>
vars == <<drainvars, cardvars>>

(* ------------------------------------------------------------------ *)
(* Messages                                                             *)
(* ------------------------------------------------------------------ *)

\* A message object: the fields of its class, the others at their placeholder,
\* and responded_entities empty.
Msg(kind, sender, upos, starget, target, targets) ==
    [kind |-> kind, sender_id |-> sender, user_pos |-> upos,
     skill_target |-> starget, target |-> target, targets |-> targets,
     responded_entities |-> <<>>]

UseSkillMsg(sender, upos, starget) ==
    Msg("UseSkill", sender, upos, starget, <<>>, <<>>)

ChangeCharacterMsg(sender, target) ==
    Msg("ChangeCharacter", sender, NoPos, <<>>, target, <<>>)

\* targets: a list of (target player, target position, element, amount);
\* elemental_reaction_triggered is always NONE and never read.
DealDamageMsg(sender, targets) ==
    Msg("DealDamage", sender, NoPos, <<>>, <<>>, targets)

CharacterDiedMsg(sender, target) ==
    Msg("CharacterDied", sender, NoPos, <<>>, target, <<>>)

\* The message without its responded record.
Content(m) == [m EXCEPT !.responded_entities = <<>>]

\* x occurs in the list s.
InList(x, s) == \E i \in DOMAIN s : s[i] = x

(* ------------------------------------------------------------------ *)
(* The priority queue                                                   *)
(* ------------------------------------------------------------------ *)

\* msg_queue.put(e) under priority keys p: e goes behind every message whose
\* key is not larger than its own.
PutP(p, q, e) ==
    LET k == Cardinality({i \in DOMAIN q : p[q[i].kind] <= p[e.kind]})
    IN SubSeq(q, 1, k) \o <<e>> \o SubSeq(q, k + 1, Len(q))

Put(q, e) == PutP(prio, q, e)

\* The queue after putting the messages of s one by one.
RECURSIVE BuildQueue(_, _, _)
BuildQueue(p, q, s) ==
    IF s = <<>> THEN q ELSE BuildQueue(p, PutP(p, q, Head(s)), Tail(s))

(* ------------------------------------------------------------------ *)
(* CharacterEntity.msg_handler                                          *)
(* ------------------------------------------------------------------ *)

Min(a, b) == IF a <= b THEN a ELSE b

\* Every entity after construction: active False, alive True, health_point
\* from the character card (lines 31, 32, 52).
NewCharacter == [health_point |-> InitHealth, alive |-> TRUE, active |-> FALSE]

\* What one call of msg_handler leaves behind: the entities, the queue, the
\* value returned, whether the call raised instead of returning, the number of
\* CharacterDiedMsg it put, and whether the message it was given is still the
\* head of the queue.
Outcome(cs, q, upd, raised, nd, kept) ==
    [chars |-> cs, queue |-> q, updated |-> upd, raised |-> raised,
     nd |-> nd, kept |-> kept]

\* Line 92 never taken.
NeverResponded(c, msg) == FALSE

\* Line 92: the entity is in the head's responded record.
AlreadyResponded(c, msg) == InList(c, msg.responded_entities)

\* Line 97 taken by every entity.
IsSkillUserAny(c, msg) == TRUE

\* Line 97: the UseSkillMsg is for this entity.
IsSkillUser(c, msg) == msg.user_pos = c[2]

\* Lines 97-108: the skill user destroys the message, reads the first skill
\* target (which raises IndexError on an empty list, after the get) and puts
\* one DealDamageMsg.
OnUseSkill(c, cs, q) ==
    LET msg == q[1]
    IN IF IsSkillUser(c, msg)
       THEN IF msg.skill_target = <<>>
            THEN Outcome(cs, Tail(q), FALSE, TRUE, 0, FALSE)
            ELSE LET t == msg.skill_target[1]
                     dmg == DealDamageMsg(c[1], <<<<t[1], t[2], "NONE", SkillDamage>>>>)
                 IN Outcome(cs, Put(Tail(q), dmg), TRUE, FALSE, 0, FALSE)
       ELSE Outcome(cs, q, FALSE, FALSE, 0, TRUE)

\* Lines 112-119 without the comparison of the player on line 111.
OnChangeCharacterAnyPlayer(c, cs, q) ==
    LET msg == q[1]
        marked == [q EXCEPT ![1].responded_entities = Append(@, c)]
    IN IF c[2] = msg.target[2]
       THEN Outcome([cs EXCEPT ![c].active = TRUE], marked, TRUE, FALSE, 0, TRUE)
       ELSE IF cs[c].active
            THEN Outcome([cs EXCEPT ![c].active = FALSE], marked, TRUE, FALSE, 0, TRUE)
            ELSE Outcome(cs, q, FALSE, FALSE, 0, TRUE)

\* Lines 110-115 without the branch of lines 116-119.
OnChangeCharacterKeep(c, cs, q) ==
    LET msg == q[1]
        marked == [q EXCEPT ![1].responded_entities = Append(@, c)]
    IN IF c[1] = msg.target[1] /\ c[2] = msg.target[2]
       THEN Outcome([cs EXCEPT ![c].active = TRUE], marked, TRUE, FALSE, 0, TRUE)
       ELSE Outcome(cs, q, FALSE, FALSE, 0, TRUE)

\* Lines 110-119: a character of the addressed player becomes active at the
\* target position and stops being active elsewhere; both record the response.
OnChangeCharacter(c, cs, q) ==
    LET msg == q[1]
        marked == [q EXCEPT ![1].responded_entities = Append(@, c)]
    IN IF c[1] = msg.target[1]
       THEN IF c[2] = msg.target[2]
            THEN Outcome([cs EXCEPT ![c].active = TRUE], marked, TRUE, FALSE, 0, TRUE)
            ELSE IF c[2] # msg.target[2] /\ cs[c].active
                 THEN Outcome([cs EXCEPT ![c].active = FALSE], marked, TRUE, FALSE, 0, TRUE)
                 ELSE Outcome(cs, q, FALSE, FALSE, 0, TRUE)
       ELSE Outcome(cs, q, FALSE, FALSE, 0, TRUE)

\* Line 125 without the min.
DamagedUnclamped(hp, dmg) == hp - dmg

\* Line 125: health_point after one matching tuple.
Damaged(hp, dmg) == hp - Min(hp, dmg)

\* Lines 123-136, from tuple i on.  a holds self.health_point, self.alive, the
\* queue, the place of msg in it, updated, and the CharacterDiedMsg put so far.
RECURSIVE DamageLoop(_, _, _, _)
DamageLoop(c, ts, i, a) ==
    IF i > Len(ts) THEN a
    ELSE IF c[1] = ts[i][1] /\ c[2] = ts[i][2]
         THEN LET hp == Damaged(a.hp, ts[i][4])
                  dead == CharacterDiedMsg(c[1], c)
                  q1 == IF hp = 0 THEN Put(a.q, dead) ELSE a.q
                  at == IF hp = 0 /\ prio[dead.kind] < prio[a.q[a.at].kind]
                        THEN a.at + 1 ELSE a.at
                  q2 == [q1 EXCEPT ![at].responded_entities = Append(@, c)]
              IN DamageLoop(c, ts, i + 1,
                     [hp |-> hp, alive |-> IF hp = 0 THEN FALSE ELSE a.alive,
                      q |-> q2, at |-> at, updated |-> TRUE,
                      nd |-> IF hp = 0 THEN a.nd + 1 ELSE a.nd])
         ELSE DamageLoop(c, ts, i + 1, a)

\* Lines 121-136 without the updated = True of line 136.
OnDealDamageSilent(c, cs, q) ==
    LET a == DamageLoop(c, q[1].targets, 1,
                 [hp |-> cs[c].health_point, alive |-> cs[c].alive, q |-> q,
                  at |-> 1, updated |-> FALSE, nd |-> 0])
    IN Outcome([cs EXCEPT ![c].health_point = a.hp, ![c].alive = a.alive],
               a.q, FALSE, FALSE, a.nd, a.at = 1)

\* Lines 121-136.
OnDealDamage(c, cs, q) ==
    LET a == DamageLoop(c, q[1].targets, 1,
                 [hp |-> cs[c].health_point, alive |-> cs[c].alive, q |-> q,
                  at |-> 1, updated |-> FALSE, nd |-> 0])
    IN Outcome([cs EXCEPT ![c].health_point = a.hp, ![c].alive = a.alive],
               a.q, a.updated, FALSE, a.nd, a.at = 1)

\* Lines 89-137: msg_handler of entity c on entities cs and a non-empty queue q.
Handle(c, cs, q) ==
    LET msg == q[1]
    IN IF AlreadyResponded(c, msg) THEN Outcome(cs, q, FALSE, FALSE, 0, TRUE)
       ELSE IF msg.kind = "UseSkill" THEN OnUseSkill(c, cs, q)
       ELSE IF msg.kind = "ChangeCharacter" THEN OnChangeCharacter(c, cs, q)
       ELSE IF msg.kind = "DealDamage" THEN OnDealDamage(c, cs, q)
       ELSE Outcome(cs, q, FALSE, FALSE, 0, TRUE)

(* ------------------------------------------------------------------ *)
(* The messages a drain starts with                                     *)
(* ------------------------------------------------------------------ *)

\* Resolved target lists of the initial UseSkillMsg: none, or one character.
SkillTargetLists == {<<>>, <<<<2, 0>>>>}

UseSkillMsgs ==
    {UseSkillMsg(s, u, l) : s \in Players, u \in Positions, l \in SkillTargetLists}

ChangeCharacterMsgs == {ChangeCharacterMsg(t[1], t) : t \in Entities}

CharacterDiedMsgs == {CharacterDiedMsg(1, <<1, 0>>)}

\* Damage aimed at one character, with and without a tuple for the character
\* facing it.
DamageTuples ==
    {<<1, 0, "NONE", d>> : d \in DmgVals} \cup {<<2, 0, "NONE", MaxDmg>>}
DamageLists == UNION {[1 .. n -> DamageTuples] : n \in 1 .. 2}

DealDamageMsgs == {DealDamageMsg(1, l) : l \in DamageLists}

\* The messages of the mixed drains: every UseSkillMsg, ChangeCharacterMsg and
\* CharacterDiedMsg above, and the single-tuple damage of the largest amount.
MixedMsgs ==
    UseSkillMsgs \cup ChangeCharacterMsgs \cup CharacterDiedMsgs
    \cup {DealDamageMsg(1, <<<<t[1], t[2], "NONE", MaxDmg>>>>) : t \in Entities}

\* Sequences of up to two messages of M, in the order they are put.
PutOrders(M) == UNION {[1 .. n -> M] : n \in 0 .. 2}

\* Priority keys of the message classes.  UseSkillMsg and ChangeCharacterMsg
\* are only ever put by the caller, whose put order decides their place, and
\* share the later key; the messages msg_handler puts take either key, which
\* places them before or behind whatever is pending.
Keys == {p \in [Kinds -> PrioLevels] : p["UseSkill"] = 2 /\ p["ChangeCharacter"] = 2}

(* ------------------------------------------------------------------ *)
(* Skills: Skill.__init__, CharacterEntity.__init__, get_raw_skill      *)
(* ------------------------------------------------------------------ *)

\* The names of the skills of the character card every entity is built from.
CardSkillNames == <<"Normal Attack", "Elemental Skill">>

\* The amount held by the cost dict each skill of the card is created with.
CardCost == 2

\* The most skills whose current cost is changed in one run.
MaxChanged == 2

\* Lines 147-150: a new Skill keeps the one dict d it was given as its
\* RAW_COST and as its current_cost.
NewSkill(name, d) == [name |-> name, RAW_COST |-> d, current_cost |-> d]

\* Line 41: CHARACTER_CARDS[self.id].copy() either shares the card's Skill
\* objects with the copy or gives the copy Skill objects of its own.
CopyModes == {"shallow", "deep"}

\* The place of entity e in the order of construction.
Slot(e) == 2 * (e[1] - 1) + e[2] + 1

\* The Skill objects after the card and every entity have been built: those
\* of the card first, then (copy mode "deep") those of each entity's own card.
\* Object i is created with dict i.
BuiltObjs(mode) ==
    LET n == Len(CardSkillNames)
        last_obj == IF mode = "shallow" THEN n ELSE n * (1 + Cardinality(Entities))
    IN [i \in 1 .. last_obj |-> NewSkill(CardSkillNames[((i - 1) % n) + 1], i)]

\* Line 47: self.skills is a new list of the Skill objects of the entity's
\* character_card.
BuiltSkills(mode) ==
    LET n == Len(CardSkillNames)
    IN [e \in Entities |->
           [k \in 1 .. n |-> IF mode = "shallow" THEN k ELSE n * Slot(e) + k]]

NoLookup == [ent |-> <<0, 0>>, id |-> <<>>, skill_name |-> <<>>,
             skill_type |-> <<>>, status |-> "", skill |-> <<>>]

\* The card and the entities as constructed under one of the copy modes.
InitCards(modes) ==
    /\ \E m \in modes :
           /\ obj = BuiltObjs(m)
           /\ cost = [i \in DOMAIN BuiltObjs(m) |-> CardCost]
           /\ skills = BuiltSkills(m)
    /\ card = [k \in DOMAIN CardSkillNames |-> k]
    /\ changed = {}
    /\ lookup = NoLookup

\* The selectors of get_raw_skill; <<>> stands for None.
Ids == {<<>>} \cup {<<i>> : i \in (-1) .. Len(CardSkillNames)}
SkillNames ==
    {<<>>} \cup {<<CardSkillNames[k]>> : k \in DOMAIN CardSkillNames} \cup {<<"Unknown">>}
SkillTypes == {<<>>, <<"NORMAL_ATTACK">>}

\* Lines 69-87: get_raw_skill of an entity whose skills are ss and whose
\* skill_names are names.  The call returns a Skill, returns None (skill <<>>)
\* or raises AssertionError.
GetRawSkill(ss, names, id, skill_name, skill_type) ==
    IF id # <<>>
    THEN IF 0 <= id[1] /\ id[1] <= Len(ss) - 1
         THEN [status |-> "returned", skill |-> <<ss[id[1] + 1]>>]
         ELSE [status |-> "AssertionError", skill |-> <<>>]
    ELSE IF skill_name # <<>>
         THEN IF \E k \in DOMAIN names : names[k] = skill_name[1]
              THEN LET k == CHOOSE k \in DOMAIN names :
                                /\ names[k] = skill_name[1]
                                /\ \A j \in 1 .. k - 1 : names[j] # skill_name[1]
                   IN [status |-> "returned", skill |-> <<ss[k]>>]
              ELSE [status |-> "AssertionError", skill |-> <<>>]
         ELSE IF skill_type # <<>>
              THEN [status |-> "returned", skill |-> <<>>]
              ELSE [status |-> "AssertionError", skill |-> <<>>]

\* Entity e is asked for a skill.
Lookup(e, id, skill_name, skill_type) ==
    /\ LET r == GetRawSkill(skills[e], [k \in DOMAIN skills[e] |-> obj[skills[e][k]].name],
                            id, skill_name, skill_type)
       IN lookup' = [ent |-> e, id |-> id, skill_name |-> skill_name,
                     skill_type |-> skill_type, status |-> r.status, skill |-> r.skill]
    /\ UNCHANGED <<drainvars, cost, obj, card, skills, changed>>

\* A discount lowers the current cost of skill k of entity e by one, writing
\* into the dict that current_cost refers to.
Discount(e, k) ==
    /\ Cardinality(changed \cup {<<e, k>>}) <= MaxChanged
    /\ cost[obj[skills[e][k]].current_cost] > 0
    /\ cost' = [cost EXCEPT ![obj[skills[e][k]].current_cost] = @ - 1]
    /\ changed' = changed \cup {<<e, k>>}
    /\ UNCHANGED <<drainvars, obj, card, skills, lookup>>

\* A discount lowers the current cost of skill k of entity e by one, giving
\* current_cost a new dict.
Replace(e, k) ==
    /\ Cardinality(changed \cup {<<e, k>>}) <= MaxChanged
    /\ cost[obj[skills[e][k]].current_cost] > 0
    /\ cost' = Append(cost, cost[obj[skills[e][k]].current_cost] - 1)
    /\ obj' = [obj EXCEPT ![skills[e][k]].current_cost = Len(cost) + 1]
    /\ changed' = changed \cup {<<e, k>>}
    /\ UNCHANGED <<drainvars, card, skills, lookup>>

(* ------------------------------------------------------------------ *)
(* The driver: fixed-point passes over the head of the queue            *)
(* ------------------------------------------------------------------ *)

NoCall == [ent |-> <<0, 0>>, kind |-> "", updated |-> FALSE, raised |-> FALSE,
           responded |-> FALSE]

\* The entities as constructed, a queue holding the messages of one put order
\* of M under priority keys of P, and the driver about to start its first pass.
InitDrain(M, P) ==
    /\ chars = [c \in Entities |-> NewCharacter]
    /\ prio \in P
    /\ \E s \in PutOrders(M) : queue = BuildQueue(prio, <<>>, s)
    /\ initq = queue
    /\ phase = "pass"
    /\ pending = Entities
    /\ updated = FALSE
    /\ last = NoCall
    /\ died = [c \in Entities |-> 0]
    /\ seen = {}
    /\ dealt = [c \in Entities |-> <<>>]

\* The same with the skills of the entities, which msg_handler never touches.
InitOf(M, P) == InitDrain(M, P) /\ InitCards({"shallow"})

\* The amounts of the tuples of msg addressed to c, in order (lines 123-124).
RECURSIVE Addressed(_, _)
Addressed(c, ts) ==
    IF ts = <<>> THEN <<>>
    ELSE (IF c[1] = Head(ts)[1] /\ c[2] = Head(ts)[2] THEN <<Head(ts)[4]>> ELSE <<>>)
         \o Addressed(c, Tail(ts))

\* The driver presents the head to entity c, which has not seen it in this pass.
React(c) ==
    /\ phase = "pass"
    /\ c \in pending
    /\ queue # <<>>
    /\ LET r == Handle(c, chars, queue)
           msg == queue[1]
       IN /\ chars' = r.chars
          /\ queue' = r.queue
          /\ updated' = (updated \/ r.updated)
          /\ phase' = IF r.raised THEN "failed" ELSE "pass"
          /\ last' = [ent |-> c, kind |-> msg.kind, updated |-> r.updated,
                      raised |-> r.raised,
                      responded |-> InList(c, msg.responded_entities)]
          /\ died' = [died EXCEPT ![c] = @ + r.nd]
          /\ seen' = IF r.kept THEN seen \cup {c} ELSE {}
          /\ dealt' = IF msg.kind = "DealDamage" /\ ~InList(c, msg.responded_entities)
                      THEN [dealt EXCEPT ![c] = @ \o Addressed(c, msg.targets)]
                      ELSE dealt
    /\ pending' = pending \ {c}
    /\ UNCHANGED <<prio, initq, cardvars>>

\* The pass is over and some entity reported an update: a new pass starts.
NewPass ==
    /\ phase = "pass"
    /\ pending = {}
    /\ updated
    /\ queue # <<>>
    /\ pending' = Entities
    /\ updated' = FALSE
    /\ UNCHANGED <<chars, queue, prio, phase, last, died, seen, dealt, initq, cardvars>>

\* A full pass reported no update and the head is still there.
Stall ==
    /\ phase = "pass"
    /\ pending = {}
    /\ ~updated
    /\ queue # <<>>
    /\ phase' = "stalled"
    /\ UNCHANGED <<chars, queue, prio, pending, updated, last, died, seen, dealt, initq,
                   cardvars>>

\* The queue is empty: the drain is over.
Finish ==
    /\ phase = "pass"
    /\ queue = <<>>
    /\ phase' = "empty"
    /\ UNCHANGED <<chars, queue, prio, pending, updated, last, died, seen, dealt, initq,
                   cardvars>>

\* The caller resolves a stall by dropping the head, and drains on.
Discard ==
    /\ phase = "stalled"
    /\ queue' = Tail(queue)
    /\ phase' = "pass"
    /\ pending' = Entities
    /\ updated' = FALSE
    /\ seen' = {}
    /\ UNCHANGED <<chars, prio, last, died, dealt, initq, cardvars>>

Drain == (\E c \in Entities : React(c)) \/ NewPass \/ Stall \/ Finish

Next == Drain \/ Discard

\* Mixed drains.
Init == InitOf(MixedMsgs, Keys)
Spec == Init /\ [][Next]_vars

\* Drains of damage only.
DamageInit == InitOf(DealDamageMsgs, Keys)
DamageSpec == DamageInit /\ [][Next]_vars

\* One drain of the mixed messages, run to its end without the caller
\* stepping in: the driver takes every step it can.
DrainSpec == Init /\ [][Drain]_vars /\ WF_vars(Drain)

(* ------------------------------------------------------------------ *)
(* Damage and death                                                     *)
(* ------------------------------------------------------------------ *)

RECURSIVE SumSeq(_)
SumSeq(s) == IF s = <<>> THEN 0 ELSE Head(s) + SumSeq(Tail(s))

Max(a, b) == IF a >= b THEN a ELSE b

NonNegative(s) == \A i \in DOMAIN s : s[i] >= 0

\* C1: over any sequence of DealDamage events delivered to the characters, no
\* character ever causes more than one CharacterDied event to be enqueued.
C1_OneDeathEvent == \A c \in Entities : died[c] <= 1

\* C4: for DealDamage events with non-negative amounts, each delivered once to a
\* character created with health H, health_point is max(0, H - S), S being the
\* sum of the amounts of the tuples addressed to that character.
C4_HealthIsClampedDifference ==
    \A c \in Entities :
        NonNegative(dealt[c]) =>
            chars[c].health_point = Max(0, InitHealth - SumSeq(dealt[c]))

\* C4 witness: a character has been delivered tuples of two events that add up
\* to more than its health, beside a tuple for another character.
C4_Witness ==
    /\ Len(dealt[<<1, 0>>]) >= 3
    /\ NonNegative(dealt[<<1, 0>>])
    /\ SumSeq(dealt[<<1, 0>>]) > InitHealth
    /\ chars[<<1, 0>>].health_point = 0
    /\ dealt[<<2, 0>>] # <<>>

\* C5: for every character created with positive health, alive is true if and
\* only if health_point > 0.
C5_AliveIffHealthy ==
    \A c \in Entities : chars[c].alive <=> (chars[c].health_point > 0)

(* ------------------------------------------------------------------ *)
(* The active character                                                 *)
(* ------------------------------------------------------------------ *)

\* The characters of player p, and those of them that are active.
CharactersOf(p) == {c \in Entities : c[1] = p}
ActiveOf(p) == {c \in CharactersOf(p) : chars[c].active}

\* C6: in every reachable state, the states between two reactions of one pass
\* included, no player has more than one character with active = true.
C6_AtMostOneActive == \A p \in Players : Cardinality(ActiveOf(p)) <= 1

\* C7: once a ChangeActiveCharacter event addressed to player P at position X
\* has been presented to every character of P, exactly the character at (P, X)
\* is active among P's characters.
C7_TargetAloneActive ==
    (/\ queue # <<>>
     /\ queue[1].kind = "ChangeCharacter"
     /\ queue[1].target \in Entities
     /\ CharactersOf(queue[1].target[1]) \subseteq seen)
    => ActiveOf(queue[1].target[1]) = {queue[1].target}

\* C7 witness: the event has been presented to every character of its player,
\* one of which gave up being active for the target.
C7_Witness ==
    /\ queue # <<>>
    /\ queue[1].kind = "ChangeCharacter"
    /\ CharactersOf(queue[1].target[1]) \subseteq seen
    /\ \E c \in CharactersOf(queue[1].target[1]) :
           /\ c # queue[1].target
           /\ InList(c, queue[1].responded_entities)
    /\ InList(queue[1].target, queue[1].responded_entities)

(* ------------------------------------------------------------------ *)
(* Skills and the responded record                                      *)
(* ------------------------------------------------------------------ *)

\* The number of messages of kind k on q.
CountKind(q, k) == Cardinality({i \in DOMAIN q : q[i].kind = k})

\* C3: a UseSkill event is removed from the queue by the acting character only
\* (the character of the event's sender at the event's user position), whatever
\* the order of presentation, and its removal enqueues exactly one new
\* DealDamage event.  Stated for the events that have a resolved target.
C3_OnlyActingCharacterConsumes ==
    [][\A c \in Entities :
          (/\ React(c)
           /\ queue[1].kind = "UseSkill"
           /\ queue[1].skill_target # <<>>
           /\ queue' # queue)
          => /\ c = <<queue[1].sender_id, queue[1].user_pos>>
             /\ CountKind(queue', "UseSkill") = CountKind(queue, "UseSkill") - 1
             /\ CountKind(queue', "DealDamage") = CountKind(queue, "DealDamage") + 1]_vars

\* C8: presenting an event to an entity whose id is already in the event's
\* responded record reports no update and changes neither the entities nor the
\* queue nor the responded record.
C8_RespondedIsNoOp ==
    [][\A c \in Entities :
          (React(c) /\ InList(c, queue[1].responded_entities))
          => /\ ~last'.updated
             /\ ~last'.raised
             /\ chars' = chars
             /\ queue' = queue]_vars

\* C8 witness: the last call presented an event to an entity already in its
\* responded record.
C8_Witness == last.responded /\ last.kind = "DealDamage"

(* ------------------------------------------------------------------ *)
(* The end of a drain                                                   *)
(* ------------------------------------------------------------------ *)

\* The drain started with one UseSkill event whose user position and first
\* target both address existing characters.
WellFormedSkillStart ==
    /\ Len(initq) = 1
    /\ initq[1].kind = "UseSkill"
    /\ <<initq[1].sender_id, initq[1].user_pos>> \in Entities
    /\ initq[1].skill_target # <<>>
    /\ initq[1].skill_target[1] \in Entities

\* C2: draining a queue that holds one well-formed UseSkill event ends with the
\* queue empty.
C2_SkillDrainEmpties ==
    (WellFormedSkillStart /\ phase # "pass") => queue = <<>>

\* C9: draining by the fixed-point pass protocol always stops, either with the
\* queue empty or with a detected stall.
C9_DrainStops == <>(phase # "pass" /\ (queue = <<>> \/ phase = "stalled"))

(* ------------------------------------------------------------------ *)
(* The order of presentation                                            *)
(* ------------------------------------------------------------------ *)

\* The fixed order of a pass: player order, then board position.
EntityOrder == <<<<1, 0>>, <<1, 1>>, <<2, 0>>>>

\* One pass over cs and q in the fixed order, from entity i on.
RECURSIVE OrderedPass(_, _, _, _)
OrderedPass(cs, q, i, upd) ==
    IF i > Len(EntityOrder) \/ q = <<>>
    THEN [chars |-> cs, queue |-> q, updated |-> upd, raised |-> FALSE]
    ELSE LET r == Handle(EntityOrder[i], cs, q)
         IN IF r.raised
            THEN [chars |-> r.chars, queue |-> r.queue, updated |-> upd, raised |-> TRUE]
            ELSE OrderedPass(r.chars, r.queue, i + 1, upd \/ r.updated)

\* The drain of q in the fixed order, from the entities cs.
RECURSIVE OrderedDrain(_, _)
OrderedDrain(cs, q) ==
    IF q = <<>> THEN [chars |-> cs, queue |-> q, phase |-> "empty"]
    ELSE LET r == OrderedPass(cs, q, 1, FALSE)
         IN IF r.raised THEN [chars |-> r.chars, queue |-> r.queue, phase |-> "failed"]
            ELSE IF r.updated THEN OrderedDrain(r.chars, r.queue)
            ELSE [chars |-> r.chars, queue |-> r.queue, phase |-> "stalled"]

\* The events on q, each with its sender and payload, and how often each occurs.
EventBag(q) ==
    [m \in {Content(q[i]) : i \in DOMAIN q} |->
        Cardinality({i \in DOMAIN q : Content(q[i]) = m})]

\* C10: the final outcome of a drain (health_point, alive and active of every
\* character, and the events on the queue with their sender) is that of the
\* drain in the fixed order, whatever the order of presentation was.
C10_OrderIndependent ==
    phase # "pass" =>
        LET r == OrderedDrain([c \in Entities |-> NewCharacter], initq)
        IN /\ chars = r.chars
           /\ EventBag(queue) = EventBag(r.queue)

(* ------------------------------------------------------------------ *)
(* What a reaction leaves alone                                         *)
(* ------------------------------------------------------------------ *)

\* Every event on q is on q2 at least as often: nothing was removed.
KeepsEvents(q, q2) ==
    \A m \in DOMAIN EventBag(q) :
        /\ m \in DOMAIN EventBag(q2)
        /\ EventBag(q2)[m] >= EventBag(q)[m]

\* C11: an event is removed from the queue only by a character reacting to a
\* UseSkill head event whose user position it matches; every other reaction
\* leaves each event on the queue, which grows or stays the same.
C11_OnlySkillUserRemoves ==
    [][\A c \in Entities :
          (/\ React(c)
           /\ ~(queue[1].kind = "UseSkill" /\ queue[1].user_pos = c[2]))
          => /\ KeepsEvents(queue, queue')
             /\ Len(queue') >= Len(queue)]_vars

\* C11 witness: the last reaction was to a DealDamage event and made the queue
\* grow by a CharacterDied event, beside a UseSkill event that was removed.
C11_Witness ==
    /\ last.kind = "DealDamage"
    /\ last.updated
    /\ died[last.ent] = 1
    /\ \E i \in DOMAIN queue : queue[i].kind = "CharacterDied"
    /\ initq # <<>>
    /\ initq[1].kind = "UseSkill"

(* ------------------------------------------------------------------ *)
(* The range of health_point                                            *)
(* ------------------------------------------------------------------ *)

\* C12: in every reachable state every character's health_point lies between 0
\* and the health it was created with, whatever integer amounts (zero and
\* negative ones included) the DealDamage tuples carry.
C12_HealthInRange ==
    \A c \in Entities :
        chars[c].health_point >= 0 /\ chars[c].health_point <= InitHealth

(* ------------------------------------------------------------------ *)
(* The damage of a skill                                                *)
(* ------------------------------------------------------------------ *)

\* The characters a skill is aimed at, and resolved target lists of up to two
\* of them.
SkillTargets == {<<1, 0>>, <<2, 0>>}
LongTargetLists == UNION {[1 .. n -> SkillTargets] : n \in 0 .. 2}

\* The skills of player 1's characters with such a target list.
TargetedSkillMsgs ==
    {UseSkillMsg(1, u, l) : u \in Positions, l \in LongTargetLists}

\* Drains of skills with several targets.
SkillInit == InitOf(TargetedSkillMsgs, Keys)
SkillSpec == SkillInit /\ [][Next]_vars

\* q without its i-th message.
RemoveAt(q, i) == SubSeq(q, 1, i - 1) \o SubSeq(q, i + 1, Len(q))

\* C13: the DealDamage event enqueued when a character consumes a UseSkill event
\* carries one damage tuple for every entry of the event's resolved target
\* list, each aimed at that entry and with no elemental reaction determined.
C13_OneTuplePerTarget ==
    [][\A c \in Entities :
          (/\ React(c)
           /\ queue[1].kind = "UseSkill"
           /\ last'.updated)
          => \E i \in DOMAIN queue' :
                 /\ queue'[i].kind = "DealDamage"
                 /\ RemoveAt(queue', i) = Tail(queue)
                 /\ Len(queue'[i].targets) = Len(queue[1].skill_target)
                 /\ \A j \in DOMAIN queue'[i].targets :
                        /\ queue'[i].targets[j][1] = queue[1].skill_target[j][1]
                        /\ queue'[i].targets[j][2] = queue[1].skill_target[j][2]
                        /\ queue'[i].targets[j][3] = "NONE"]_vars

(* ------------------------------------------------------------------ *)
(* Looking up a skill                                                   *)
(* ------------------------------------------------------------------ *)

\* The card and the entities as constructed, nothing queued.
CardInit == InitDrain({}, Keys) /\ InitCards(CopyModes)

LookupNext ==
    \E e \in Entities, id \in Ids, skill_name \in SkillNames, skill_type \in SkillTypes :
        Lookup(e, id, skill_name, skill_type)

\* Skill lookups of the entities.
LookupSpec == CardInit /\ [][LookupNext]_vars

\* C14: a skill lookup either returns one of the character's own skills or
\* fails: an index outside 0..skill_num-1 fails, a name that is not among the
\* character's skill names fails, and with no selector (index, name or
\* category) does the lookup finish without returning a skill.
C14_LookupReturnsOwnSkillOrFails ==
    /\ lookup.status = "returned" =>
           /\ lookup.skill # <<>>
           /\ \E k \in DOMAIN skills[lookup.ent] : skills[lookup.ent][k] = lookup.skill[1]
    /\ (lookup.id # <<>> /\ ~(0 <= lookup.id[1] /\ lookup.id[1] <= Len(CardSkillNames) - 1))
           => lookup.status = "AssertionError"
    /\ (/\ lookup.id = <<>>
        /\ lookup.skill_name # <<>>
        /\ \A k \in DOMAIN CardSkillNames : CardSkillNames[k] # lookup.skill_name[1])
           => lookup.status = "AssertionError"

(* ------------------------------------------------------------------ *)
(* What a change of the active character touches                        *)
(* ------------------------------------------------------------------ *)

\* C15: handling a ChangeActiveCharacter event addressed to player P changes
\* only the active flags of P's characters: the characters of every other
\* player, and health_point and alive of every character, stay as they are,
\* and no event is added to the queue.
C15_OnlyActiveOfAddressedPlayer ==
    [][\A c \in Entities :
          (React(c) /\ queue[1].kind = "ChangeCharacter")
          => /\ \A d \in Entities :
                    /\ d[1] # queue[1].target[1] => chars'[d] = chars[d]
                    /\ chars'[d].health_point = chars[d].health_point
                    /\ chars'[d].alive = chars[d].alive
             /\ Len(queue') = Len(queue)
             /\ EventBag(queue') = EventBag(queue)]_vars

\* C15 witness: the last reaction was to a ChangeActiveCharacter event and made
\* a character of the addressed player give up being active.
C15_Witness ==
    /\ queue # <<>>
    /\ queue[1].kind = "ChangeCharacter"
    /\ last.kind = "ChangeCharacter"
    /\ last.updated
    /\ last.ent[1] = queue[1].target[1]
    /\ ~chars[last.ent].active

(* ------------------------------------------------------------------ *)
(* The cost of a skill                                                  *)
(* ------------------------------------------------------------------ *)

CostNext ==
    \E e \in Entities, k \in DOMAIN CardSkillNames : Discount(e, k) \/ Replace(e, k)

\* Discounts on the skills of the entities.
CostSpec == CardInit /\ [][CostNext]_vars

\* The amounts of the raw and of the current cost of Skill object o.
RawCostOf(o) == cost[obj[o].RAW_COST]
CurrentCostOf(o) == cost[obj[o].current_cost]

\* C16: skill cost state is not aliased: changing the current cost of a skill
\* held by one entity changes neither the raw cost of that skill, nor the
\* skills of the shared card, nor the costs of the skills of another entity
\* built from the same card.
C16_CostsNotAliased ==
    /\ \A k \in DOMAIN card :
           RawCostOf(card[k]) = CardCost /\ CurrentCostOf(card[k]) = CardCost
    /\ \A e \in Entities : \A k \in DOMAIN skills[e] :
           /\ RawCostOf(skills[e][k]) = CardCost
           /\ <<e, k>> \notin changed => CurrentCostOf(skills[e][k]) = CardCost

(* ------------------------------------------------------------------ *)
(* The value a reaction returns                                         *)
(* ------------------------------------------------------------------ *)

\* C17: whenever a reaction reports no update, the entities, the queue and the
\* head event's responded record are unchanged.  A reaction to an event of a
\* variant other than UseSkill, ChangeActiveCharacter and DealDamage always
\* reports no update and changes nothing, and a character of the addressed
\* player that is neither at the target position nor active reports no update
\* to a ChangeActiveCharacter event and is not recorded as responded.
C17_NoUpdateMeansNoChange ==
    [][\A c \in Entities :
          React(c)
          => /\ (~last'.updated /\ ~last'.raised)
                    => (chars' = chars /\ queue' = queue)
             /\ queue[1].kind \notin {"UseSkill", "ChangeCharacter", "DealDamage"}
                    => /\ ~last'.updated
                       /\ ~last'.raised
                       /\ chars' = chars
                       /\ queue' = queue
             /\ (/\ queue[1].kind = "ChangeCharacter"
                 /\ c[1] = queue[1].target[1]
                 /\ c[2] # queue[1].target[2]
                 /\ ~chars[c].active)
                    => /\ ~last'.updated
                       /\ ~last'.raised
                       /\ queue'[1].responded_entities = queue[1].responded_entities]_vars

\* C17 witness: the last reaction was that of a character of the addressed
\* player, neither at the target position nor active, to a
\* ChangeActiveCharacter event; it reported no update and the character is not
\* in the responded record.
C17_Witness ==
    /\ queue # <<>>
    /\ queue[1].kind = "ChangeCharacter"
    /\ last.kind = "ChangeCharacter"
    /\ ~last.updated
    /\ ~last.responded
    /\ last.ent[1] = queue[1].target[1]
    /\ last.ent # queue[1].target
    /\ ~chars[last.ent].active
    /\ ~InList(last.ent, queue[1].responded_entities)

(* ------------------------------------------------------------------ *)
(* Dead characters                                                      *)
(* ------------------------------------------------------------------ *)

\* C18: in every reachable state a character with alive = false does not have
\* active = true: an active character whose health_point reaches 0 stops being
\* the active character.
C18_DeadIsNotActive ==
    \A c \in Entities : ~chars[c].alive => ~chars[c].active

\* C19: a character with alive = false never consumes a UseSkill event and
\* never enqueues a DealDamage event: every DealDamage event the characters
\* produce is produced by a character that is alive at that moment.
C19_DeadNeverUsesSkill ==
    [][\A c \in Entities :
          (/\ React(c)
           /\ queue[1].kind = "UseSkill"
           /\ (queue' # queue
               \/ CountKind(queue', "DealDamage") > CountKind(queue, "DealDamage")))
          => chars[c].alive]_vars

\* C20: a reaction that fails leaves the queue unchanged: a UseSkill event with
\* an empty resolved target list, presented to the character at its user
\* position, makes the reaction fail and is still on the queue afterwards.
C20_FailureKeepsQueue ==
    [][\A c \in Entities :
          (/\ React(c)
           /\ queue[1].kind = "UseSkill"
           /\ queue[1].skill_target = <<>>
           /\ queue[1].user_pos = c[2])
          => /\ last'.raised
             /\ queue' = queue]_vars

====
